---- MODULE Spec2Model ----
(***************************************************************************)
(* A model of util/arena.{h,cc} (the bump-pointer Arena), util/random.h    *)
(* (the Lehmer generator Random), include/leveldb/slice.h (the byte-range  *)
(* view Slice) and of the randomized workload of util/arena_test.cc        *)
(* (ArenaTest.Simple).                                                     *)
(*                                                                         *)
(* Addresses and sizes are natural numbers.  nullptr is address 0.         *)
(* size_t arithmetic is taken modulo 2^SizeBits: the code's arithmetic is  *)
(* the same at every width, and TLC's integers are 32 bits wide, so the    *)
(* model runs size_t at SizeBits bits instead of 64.                       *)
(***************************************************************************)
EXTENDS Integers, Sequences, FiniteSets, TLC

(***************************************************************************)
(* Bounds of the model.                                                    *)
(***************************************************************************)
\* width of size_t in the model
SizeBits == 24
\* calls of Allocate / AllocateAligned in one behaviour of Spec
MaxCalls == 3
\* MemoryUsage() reads of the observer thread in one behaviour of SpecObs
MaxReads == 3
\* draws in one behaviour of SpecRandom
MaxDraws == 4
\* length of the byte arrays behind the slices of SpecSlice
MaxLen == 2

(***************************************************************************)
(* Program constants.                                                      *)
(***************************************************************************)
\* arena.cc:9   static const int kBlockSize = 4096;
kBlockSize == 4096
\* arena.cc:92  sizeof(char*), the per-block overhead charged to the counter
PointerSize == 8
\* arena.cc:51  const int align = (sizeof(void*) > 8) ? sizeof(void*) : 8;
align == IF PointerSize > 8 THEN PointerSize ELSE 8

RECURSIVE Pow2(_)
Pow2(k) == IF k = 0 THEN 1 ELSE 2 * Pow2(k - 1)

\* size_t: values 0 .. SIZE_MAX, arithmetic modulo SIZE_MAX + 1
SIZE_MAX == Pow2(SizeBits) - 1
Wrap(x) == x % (SIZE_MAX + 1)

VARIABLES
    arena,       \* the Arena object: alloc_ptr_, alloc_bytes_remaining_,
                 \* blocks_, memory_usage_
    heap,        \* the free store behind new[] / delete[]
    status,      \* "live", "aborted" (an assert failed), "destroyed"
    allocated,   \* the (size, pointer) pairs handed to the client, with the
                 \* byte the client filled each with (arena_test.cc:15,50-56)
    last,        \* the last call: operation, argument, outcome, result, its
                 \* number, and the Arena object as it was before the call
    usage_hist,  \* modification order of the atomic memory_usage_
    obs,         \* the observer thread: its reads of MemoryUsage()
    rnd,         \* the Random object: seed_, and the last draw
    test,        \* ArenaTest.Simple: loop index i and counter bytes
    slices       \* three Slice objects a, b, c and the last call made on them

vars == <<arena, heap, status, allocated, last, usage_hist, obs, rnd, test,
          slices>>

(***************************************************************************)
(* The free store.  new char[n] returns the base of a block of n bytes     *)
(* that is align-aligned and disjoint from every block handed out before,  *)
(* or throws std::bad_alloc when the request exceeds what the address      *)
(* space can hold.  The placement is the allocator's choice: the block is  *)
(* put gap bytes after the previous one.                                   *)
(***************************************************************************)
\* the store cannot hold more than half of the address space
HeapLimit == Pow2(SizeBits - 1)
HeapStart == 2 * kBlockSize
HeapGaps == {0, 2 * align}

RoundUp(x) == ((x + align - 1) \div align) * align

NewHeap == [brk |-> HeapStart, chunks |-> <<>>, freed |-> <<>>]

\* new char[n]
NewArray(h, n, gap) ==
    LET base == RoundUp(h.brk) + gap
    IN  IF n > HeapLimit \/ base + n > HeapLimit
        THEN [ok |-> FALSE, p |-> 0, heap |-> h]
        ELSE [ok |-> TRUE, p |-> base,
              heap |-> [h EXCEPT !.brk = base + n,
                                 !.chunks = Append(@, [base |-> base, size |-> n])]]

\* delete[] p
DeleteArray(h, p) == [h EXCEPT !.freed = Append(@, p)]

(***************************************************************************)
(* Arena.  Every operation maps a state s = [arena, heap] to               *)
(* [arena, heap, outcome, result]; outcome is "returned", "assert" (an     *)
(* assert failed: the process aborts) or "bad_alloc" (new threw).          *)
(***************************************************************************)
\* Arena::Arena()
NewArena == [alloc_ptr_ |-> 0, alloc_bytes_remaining_ |-> 0,
             blocks_ |-> <<>>, memory_usage_ |-> 0]

Ret(a, h, p) == [arena |-> a, heap |-> h, outcome |-> "returned", result |-> p]
Fail(s, why) == [arena |-> s.arena, heap |-> s.heap, outcome |-> why, result |-> 0]

\* FetchAdd with block_bytes * sizeof(char*) for block_bytes + sizeof(char*)
FetchAddTimes(usage, block_bytes) == Wrap(usage + Wrap(block_bytes * PointerSize))

\* FetchAdd without the sizeof(char*) of the block list's entry
FetchAddNoOverhead(usage, block_bytes) == Wrap(usage + block_bytes)

\* FetchAdd with the counter stored instead of added to
FetchAddStored(usage, block_bytes) == Wrap(block_bytes + PointerSize)

\* memory_usage_.fetch_add(block_bytes + sizeof(char*), relaxed)
FetchAdd(usage, block_bytes) == Wrap(usage + Wrap(block_bytes + PointerSize))

\* Arena::AllocateNewBlock
AllocateNewBlock(s, block_bytes, gap) ==
    LET r == NewArray(s.heap, block_bytes, gap)
    IN  IF ~r.ok
        THEN Fail(s, "bad_alloc")
        ELSE Ret([s.arena EXCEPT !.blocks_ = Append(@, r.p),
                                 !.memory_usage_ = FetchAdd(@, block_bytes)],
                 r.heap, r.p)

\* the threshold test with kBlockSize for kBlockSize / 4
IsLargeWholeBlock(bytes) == bytes > kBlockSize

\* the test of Arena::AllocateFallback: the request gets a block of its own
IsLarge(bytes) == bytes > kBlockSize \div 4

\* AllocateFallback making the block of a large request the active block
AllocateFallbackResetsCursor(s, bytes, gap) ==
    LET block_bytes == IF IsLarge(bytes) THEN bytes ELSE kBlockSize
        r == AllocateNewBlock(s, block_bytes, gap)
    IN  IF r.outcome # "returned"
        THEN r
        ELSE Ret([r.arena EXCEPT
                      !.alloc_ptr_ = r.result + bytes,
                      !.alloc_bytes_remaining_ = Wrap(block_bytes - bytes)],
                 r.heap, r.result)

\* Arena::AllocateFallback
AllocateFallback(s, bytes, gap) ==
    IF IsLarge(bytes)
    THEN AllocateNewBlock(s, bytes, gap)
    ELSE LET r == AllocateNewBlock(s, kBlockSize, gap)
         IN  IF r.outcome # "returned"
             THEN r
             ELSE Ret([r.arena EXCEPT
                           !.alloc_ptr_ = r.result + bytes,
                           !.alloc_bytes_remaining_ = Wrap(kBlockSize - bytes)],
                      r.heap, r.result)

\* Allocate with bytes < alloc_bytes_remaining_ for <=
AllocateStrict(s, bytes, gap) ==
    IF ~(bytes > 0)
    THEN Fail(s, "assert")
    ELSE IF bytes < s.arena.alloc_bytes_remaining_
    THEN Ret([s.arena EXCEPT
                  !.alloc_ptr_ = @ + bytes,
                  !.alloc_bytes_remaining_ = @ - bytes],
             s.heap, s.arena.alloc_ptr_)
    ELSE AllocateFallback(s, bytes, gap)

\* Arena::Allocate
Allocate(s, bytes, gap) ==
    IF ~(bytes > 0)
    THEN Fail(s, "assert")
    ELSE IF bytes <= s.arena.alloc_bytes_remaining_
    THEN Ret([s.arena EXCEPT
                  !.alloc_ptr_ = @ + bytes,
                  !.alloc_bytes_remaining_ = @ - bytes],
             s.heap, s.arena.alloc_ptr_)
    ELSE AllocateFallback(s, bytes, gap)

\* Slop without the subtraction from align
SlopIsMod(ptr) == ptr % align

\* size_t slop = (current_mod == 0 ? 0 : align - current_mod);
Slop(ptr) ==
    LET current_mod == ptr % align
    IN  IF current_mod = 0 THEN 0 ELSE align - current_mod

\* Arena::AllocateAligned
AllocateAligned(s, bytes, gap) ==
    LET slop == Slop(s.arena.alloc_ptr_)
        needed == Wrap(bytes + slop)
        r == IF needed <= s.arena.alloc_bytes_remaining_
             THEN Ret([s.arena EXCEPT
                           !.alloc_ptr_ = @ + needed,
                           !.alloc_bytes_remaining_ = @ - needed],
                      s.heap, s.arena.alloc_ptr_ + slop)
             ELSE AllocateFallback(s, bytes, gap)
    IN  IF r.outcome = "returned" /\ r.result % align # 0
        THEN [r EXCEPT !.outcome = "assert"]
        ELSE r

\* Arena::~Arena
RECURSIVE DeleteBlocks(_, _, _)
DeleteBlocks(h, blocks, i) ==
    IF i > Len(blocks) THEN h
    ELSE DeleteBlocks(DeleteArray(h, blocks[i]), blocks, i + 1)

\* Destructor with the loop started one block late
DestructorSkipsFirst(s) == DeleteBlocks(s.heap, s.arena.blocks_, 2)

Destructor(s) == DeleteBlocks(s.heap, s.arena.blocks_, 1)

\* Arena::MemoryUsage
MemoryUsage(a) == a.memory_usage_

(***************************************************************************)
(* Random (util/random.h).  seed_ is a uint32_t.  The 64-bit product       *)
(* seed_ * A is kept as the pair (product >> 31, product & M), computed    *)
(* from 16-bit halves of seed_ so that no intermediate value exceeds 31    *)
(* bits.  A 32-bit constructor argument s is the pair [top, low] with      *)
(* s = top * 2^31 + low.                                                   *)
(***************************************************************************)
\* random.h:46  static const uint32_t M = 2147483647L;
M == 2147483647
\* random.h:47  static const uint64_t A = 16807;
A == 16807

\* s & 0x7fffffffu
Mask31(s) == s.low

\* Random without the test for M
RandomKeepsM(s) ==
    LET seed == Mask31(s)
    IN  IF seed = 0 THEN 1 ELSE seed

\* Random::Random
Random(s) ==
    LET seed == Mask31(s)
    IN  IF seed = 0 \/ seed = M THEN 1 ELSE seed

\* uint64_t product = seed_ * A, as [shr |-> product >> 31, and |-> product & M]
Product(seed) ==
    LET hA == (seed \div 65536) * A
        lA == (seed % 65536) * A
        mid == (hA % 32768) + (lA \div 65536)
    IN  [shr |-> (hA \div 32768) + (mid \div 32768),
         and |-> (mid % 32768) * 65536 + (lA % 65536)]

\* Next with the second reduction done by masking (seed_ &= M) instead of
\* seed_ -= M
NextMasked(seed) ==
    LET product == Product(seed)
    IN  IF product.shr > M - product.and
        THEN product.shr - (M - product.and) - 1
        ELSE product.shr + product.and

\* Random::Next: seed_ = (product >> 31) + (product & M);
\* if (seed_ > M) seed_ -= M.  The sum is below 2^32, so the cast to uint32_t
\* keeps it; the test sum > M is made on shr > M - and, which is the same.
Next(seed) ==
    LET product == Product(seed)
    IN  IF product.shr > M - product.and
        THEN product.shr - (M - product.and)
        ELSE product.shr + product.and

\* Random::Uniform: Next() % n, as [seed, out]
Uniform(seed, n) == [seed |-> Next(seed), out |-> Next(seed) % n]

\* Random::OneIn: (Next() % n) == 0
OneIn(seed, n) == [seed |-> Next(seed), out |-> (Next(seed) % n) = 0]

\* Random::Skewed: Uniform(1 << Uniform(max_log + 1))
Skewed(seed, max_log) ==
    LET base == Uniform(seed, max_log + 1)
    IN  Uniform(base.seed, Pow2(base.out))

\* Random rnd(s), with the record of the last draw
NewRandom(s) == [arg |-> s, seed_ |-> Random(s), op |-> "none", out |-> 0, draws |-> 0]

\* arena_test.cc:20  Random rnd(301);
TestSeed == [top |-> 0, low |-> 301]

(***************************************************************************)
(* include/leveldb/slice.h.  A Slice is the pair (data_, size_); a pointer *)
(* into a byte array is the array's contents buf and an offset off, so     *)
(* data_[i] is buf[off + i + 1].  Bytes are unsigned values 0..255.        *)
(***************************************************************************)
\* the string literal "": one byte, the terminator
EmptyLiteral == <<0>>

\* Slice() : data_(""), size_(0)
Slice == [buf |-> EmptyLiteral, off |-> 0, size_ |-> 0]

\* Slice(const char* d, size_t n) : data_(d), size_(n)
SliceOf(d, n) == [buf |-> d, off |-> 0, size_ |-> n]

\* data_[i], as memcmp reads it (an unsigned char)
ByteAt(s, i) == s.buf[s.off + i + 1]

\* the byte read as a signed char
SignedChar(v) == IF v >= 128 THEN v - 256 ELSE v

\* std::string(data_, size_)
SliceToString(s) == SubSeq(s.buf, s.off + 1, s.off + s.size_)

\* clear(): data_ = ""; size_ = 0
clear(s) == Slice

\* remove_prefix(n): data_ += n; size_ -= n (after assert(n <= size()))
remove_prefix(s, n) == [s EXCEPT !.off = @ + n, !.size_ = @ - n]

\* memcmp comparing the bytes as signed char
RECURSIVE MemcmpSignedFrom(_, _, _, _)
MemcmpSignedFrom(p, q, n, i) ==
    IF i >= n THEN 0
    ELSE IF ByteAt(p, i) # ByteAt(q, i)
         THEN SignedChar(ByteAt(p, i)) - SignedChar(ByteAt(q, i))
         ELSE MemcmpSignedFrom(p, q, n, i + 1)

MemcmpSigned(p, q, n) == MemcmpSignedFrom(p, q, n, 0)

\* memcmp(p, q, n): the first n bytes of both compared as unsigned char;
\* the difference of the first pair that differs, 0 if none does
RECURSIVE MemcmpFrom(_, _, _, _)
MemcmpFrom(p, q, n, i) ==
    IF i >= n THEN 0
    ELSE IF ByteAt(p, i) # ByteAt(q, i)
         THEN ByteAt(p, i) - ByteAt(q, i)
         ELSE MemcmpFrom(p, q, n, i + 1)

Memcmp(p, q, n) == MemcmpFrom(p, q, n, 0)

\* starts_with requiring this to be strictly longer than x
StartsWithLonger(s, x) == (s.size_ > x.size_) /\ (Memcmp(s, x, x.size_) = 0)

\* Slice::starts_with
starts_with(s, x) == (s.size_ >= x.size_) /\ (Memcmp(s, x, x.size_) = 0)

\* operator==(const Slice& x, const Slice& y)
SliceEq(x, y) == (x.size_ = y.size_) /\ (Memcmp(x, y, x.size_) = 0)

\* operator!=
SliceNe(x, y) == ~SliceEq(x, y)

\* Slice::compare
compare(s, b) ==
    LET min_len == IF s.size_ < b.size_ THEN s.size_ ELSE b.size_
        r == Memcmp(s, b, min_len)
    IN  IF r = 0
        THEN IF s.size_ < b.size_ THEN -1
             ELSE IF s.size_ > b.size_ THEN 1
             ELSE r
        ELSE r

(***************************************************************************)
(* The client of Spec: one thread that calls Allocate and AllocateAligned  *)
(* with sizes from Sizes, fills every region it is given with the byte     *)
(* i % 256 (i the number of the allocation, as arena_test.cc:50-56 does),  *)
(* and may destroy the arena at any time.                                  *)
(***************************************************************************)
Sizes == {0, 1, kBlockSize \div 4, kBlockSize \div 4 + 1,
          kBlockSize - kBlockSize \div 4, kBlockSize - 1, kBlockSize + 904,
          SIZE_MAX - 2}

NoCall == [op |-> "none", n |-> 0, outcome |-> "none", result |-> 0, k |-> 0,
           pre |-> NewArena]

ArenaInit ==
    /\ arena = NewArena
    /\ heap = NewHeap
    /\ status = "live"
    /\ allocated = <<>>
    /\ last = NoCall
    /\ usage_hist = <<0>>
    /\ obs = [n |-> 0, idx |-> 1, val |-> 0, prev |-> 0]

\* no Slice work: three empty slices, no call made
SlicesIdle ==
    slices = [a |-> Slice, b |-> Slice, c |-> Slice, op |-> "none", r |-> 0]

Init ==
    /\ ArenaInit
    /\ SlicesIdle
    /\ rnd = NewRandom(TestSeed)
    /\ test = [i |-> 0, bytes |-> 0, verdict |-> "ok"]

\* what a call leaves behind: the new object and store, the record of the
\* call, the filled region, and the counter's modification order
Effect(op, n, r) ==
    /\ arena' = r.arena
    /\ heap' = r.heap
    /\ last' = [op |-> op, n |-> n, outcome |-> r.outcome,
                result |-> r.result, k |-> last.k + 1, pre |-> arena]
    /\ status' = IF r.outcome = "assert" THEN "aborted" ELSE status
    /\ allocated' = IF r.outcome = "returned"
                    THEN Append(allocated,
                                [op |-> op, n |-> n, p |-> r.result,
                                 fill |-> Len(allocated) % 256])
                    ELSE allocated
    /\ usage_hist' = IF r.arena.memory_usage_ # arena.memory_usage_
                     THEN Append(usage_hist, r.arena.memory_usage_)
                     ELSE usage_hist

Here == [arena |-> arena, heap |-> heap]

CallAllocate(S) ==
    /\ status = "live"
    /\ last.k < MaxCalls
    /\ \E n \in S, gap \in HeapGaps :
           Effect("Allocate", n, Allocate(Here, n, gap))
    /\ UNCHANGED <<obs, rnd, test, slices>>

CallAllocateAligned(S) ==
    /\ status = "live"
    /\ last.k < MaxCalls
    /\ \E n \in S, gap \in HeapGaps :
           Effect("AllocateAligned", n, AllocateAligned(Here, n, gap))
    /\ UNCHANGED <<obs, rnd, test, slices>>

Destroy ==
    /\ status = "live"
    /\ heap' = Destructor(Here)
    /\ status' = "destroyed"
    /\ UNCHANGED <<arena, allocated, last, usage_hist, obs, rnd, test, slices>>

DoAllocate == CallAllocate(Sizes)
DoAllocateAligned == CallAllocateAligned(Sizes)

NextArena == DoAllocate \/ DoAllocateAligned \/ Destroy

Spec == Init /\ [][NextArena]_vars

(***************************************************************************)
(* What the claims speak about.                                            *)
(***************************************************************************)
\* the allocations of n > 0 bytes handed out so far
Given == {i \in 1..Len(allocated) : allocated[i].n > 0}
\* the byte range [p, p+n) of allocation i
Lo(i) == allocated[i].p
Hi(i) == allocated[i].p + allocated[i].n
Overlap(i, j) == Lo(i) < Hi(j) /\ Lo(j) < Hi(i)
\* the blocks in the arena's block list, with the size new[] gave each
Owned == {c \in 1..Len(heap.chunks) :
              \E b \in 1..Len(arena.blocks_) : arena.blocks_[b] = heap.chunks[c].base}
Inside(i, c) == /\ heap.chunks[c].base <= Lo(i)
                /\ Hi(i) <= heap.chunks[c].base + heap.chunks[c].size
RECURSIVE SumN(_)
SumN(k) == IF k = 0 THEN 0 ELSE allocated[k].n + SumN(k - 1)
\* the sum of all bytes requested by the calls that returned
Requested == SumN(Len(allocated))
\* no request so far was so large that bytes + (align - 1) exceeds SIZE_MAX
NoWrap == \A i \in 1..Len(allocated) : allocated[i].n + (align - 1) <= SIZE_MAX
\* how often delete[] was called on address p
Frees(p) == Cardinality({k \in 1..Len(heap.freed) : heap.freed[k] = p})

\* C1: the byte ranges [p, p+n) returned by any sequence of Allocate(n) /
\* AllocateAligned(n) calls with n > 0 are pairwise disjoint.
C1_NoOverlap ==
    \A i \in Given, j \in Given : i # j => ~Overlap(i, j)

\* C1, for the requests whose bytes + (align - 1) does not wrap size_t
C1_NoOverlapBelowWrap == NoWrap => C1_NoOverlap

\* C2: AllocateAligned(n), n > 0, returns an address that is 0 modulo align,
\* on the in-block path and on the fallback path, and the assert at the end
\* of AllocateAligned never fails.
C2_Aligned ==
    /\ \A i \in Given : allocated[i].op = "AllocateAligned"
                            => allocated[i].p % align = 0
    /\ (last.op = "AllocateAligned" /\ last.n > 0) => last.outcome # "assert"

\* an AllocateAligned(n) call, n > 0, was served inside the active block
\* after slop bytes of padding (the region before it ends short of it), and
\* an earlier one was served by the base of a new block
C2_Witness ==
    /\ Len(allocated) >= 3
    /\ last.op = "AllocateAligned" /\ last.outcome = "returned" /\ last.n > 0
    /\ \A c \in 1..Len(heap.chunks) : heap.chunks[c].base # last.result
    /\ Hi(Len(allocated) - 1) < last.result
    /\ Hi(Len(allocated) - 1) + align > last.result
    /\ \E i \in Given : /\ allocated[i].op = "AllocateAligned"
                        /\ \E c \in Owned : heap.chunks[c].base = allocated[i].p

\* C3: every region [p, p+n) returned, n > 0, lies inside exactly one block
\* of the arena's block list.
C3_Contained ==
    \A i \in Given : Cardinality({c \in Owned : Inside(i, c)}) = 1

\* C3, for the requests whose bytes + (align - 1) does not wrap size_t
C3_ContainedBelowWrap == NoWrap => C3_Contained

\* the byte at address a of allocation i still holds what the client wrote
\* there: no region filled later with another byte covers it
Intact(i) ==
    \A j \in Given : (j > i /\ Overlap(i, j)) => allocated[j].fill = allocated[i].fill

\* C4: until the arena is destroyed the bytes written to any allocation are
\* read back unchanged after any later allocations and writes into them, and
\* the arena releases no storage.
C4_Durable ==
    status = "live" => /\ \A i \in Given : Intact(i)
                       /\ heap.freed = <<>>

\* C4, for the requests whose bytes + (align - 1) does not wrap size_t
C4_DurableBelowWrap == NoWrap => C4_Durable

\* C5: after every call MemoryUsage() >= the sum of all bytes requested.
C5_UsageLowerBound == MemoryUsage(arena) >= Requested

\* C5, for the requests whose bytes + (align - 1) does not wrap size_t
C5_UsageLowerBoundBelowWrap == NoWrap => C5_UsageLowerBound

\* C7: in every reachable state a call Allocate(0) or AllocateAligned(0)
\* ends in an assertion failure: it returns no pointer, and leaves the
\* cursor, the block list and the usage counter as they were.
C7_ZeroRejected ==
    /\ (last.op # "none" /\ last.n = 0) =>
           (last.outcome = "assert" /\ arena = last.pre)
    /\ \A i \in 1..Len(allocated) : allocated[i].n > 0

\* C7, for Allocate alone
C7_AllocateZeroRejected ==
    /\ (last.op = "Allocate" /\ last.n = 0) =>
           (last.outcome = "assert" /\ arena = last.pre)
    /\ \A i \in 1..Len(allocated) :
           allocated[i].op = "Allocate" => allocated[i].n > 0

\* C8: while the arena lives no block is released and none leaves the block
\* list (the list is every block acquired, in order of acquisition); the
\* destructor releases every block ever acquired exactly once.
C8_ReleasedOnce ==
    /\ Len(arena.blocks_) = Len(heap.chunks)
    /\ \A c \in 1..Len(heap.chunks) : arena.blocks_[c] = heap.chunks[c].base
    /\ status # "destroyed" => heap.freed = <<>>
    /\ status = "destroyed" =>
           /\ \A c \in 1..Len(heap.chunks) : Frees(heap.chunks[c].base) = 1
           /\ Len(heap.freed) = Len(heap.chunks)

\* an arena that acquired a standard and a dedicated block was destroyed
C8_Witness ==
    /\ status = "destroyed"
    /\ Len(heap.chunks) >= 2
    /\ \E c \in 1..Len(heap.chunks) : heap.chunks[c].size # kBlockSize

(***************************************************************************)
(* SpecObs: the mutator thread of Spec and an observer thread that calls   *)
(* MemoryUsage().  memory_usage_ is a std::atomic<size_t>; usage_hist is   *)
(* its modification order.  A relaxed load returns some value of the       *)
(* modification order that is not older than the value the same thread     *)
(* read before (read-read coherence); it need not be the newest.           *)
(***************************************************************************)
ObsSizes == {1, kBlockSize \div 4 + 1, kBlockSize - 1}

ObserverRead ==
    /\ status = "live"
    /\ obs.n < MaxReads
    /\ \E k \in obs.idx..Len(usage_hist) :
           obs' = [n |-> obs.n + 1, idx |-> k,
                   val |-> usage_hist[k], prev |-> obs.val]
    /\ UNCHANGED <<arena, heap, status, allocated, last, usage_hist, rnd, test,
                   slices>>

ObsAllocate == CallAllocate(ObsSizes)
ObsAllocateAligned == CallAllocateAligned(ObsSizes)

NextObs == ObsAllocate \/ ObsAllocateAligned \/ ObserverRead

SpecObs == Init /\ [][NextObs]_vars

RECURSIVE Charged(_)
\* what the first k block acquisitions charged to the counter
Charged(k) ==
    IF k = 0 THEN 0 ELSE heap.chunks[k].size + PointerSize + Charged(k - 1)

\* C6: every value the observer reads is the value the counter held after
\* some prefix of the block acquisitions done so far, a later read is never
\* below an earlier one, and every change of the counter adds a positive
\* amount.
C6_ObserverMonotone ==
    /\ \E k \in 0..Len(heap.chunks) : obs.val = Charged(k)
    /\ obs.prev <= obs.val
    /\ obs.val <= MemoryUsage(arena)
    /\ \A k \in 2..Len(usage_hist) : usage_hist[k] > usage_hist[k - 1]

\* the observer read twice, saw the counter grow, and its last read lags
\* behind the mutator
C6_Witness ==
    /\ obs.n >= 2
    /\ 0 < obs.prev /\ obs.prev < obs.val
    /\ obs.val < MemoryUsage(arena)

(***************************************************************************)
(* SpecRandom: a generator constructed from any of Seeds, then drawn from. *)
(***************************************************************************)
\* 20443707 is the smallest state from which (product >> 31) + (product & M)
\* exceeds M
Seeds == {[top |-> t, low |-> l] :
              t \in {0, 1},
              l \in {0, 1, 2, 301, 65535, 65536, 127773, 20443707,
                      1073741824, M - 2, M - 1, M}}
UniformArgs == {1, 2, 10, 4000, M}
SkewedArgs == {0, 3, 30}

InitRandom ==
    /\ ArenaInit
    /\ SlicesIdle
    /\ \E s \in Seeds : rnd = NewRandom(s)
    /\ test = [i |-> 0, bytes |-> 0, verdict |-> "ok"]

Drawn(op, seed, out) ==
    /\ rnd' = [rnd EXCEPT !.seed_ = seed, !.op = op, !.out = out,
                          !.draws = @ + 1]
    /\ UNCHANGED <<arena, heap, status, allocated, last, usage_hist, obs, test,
                   slices>>

DrawNext ==
    /\ rnd.draws < MaxDraws
    /\ Drawn("Next", Next(rnd.seed_), Next(rnd.seed_))

DrawUniform ==
    /\ rnd.draws < MaxDraws
    /\ \E n \in UniformArgs :
           LET r == Uniform(rnd.seed_, n) IN Drawn("Uniform", r.seed, r.out)

DrawOneIn ==
    /\ rnd.draws < MaxDraws
    /\ \E n \in UniformArgs :
           LET r == OneIn(rnd.seed_, n)
           IN  Drawn("OneIn", r.seed, IF r.out THEN 1 ELSE 0)

DrawSkewed ==
    /\ rnd.draws < MaxDraws
    /\ \E max_log \in SkewedArgs :
           LET r == Skewed(rnd.seed_, max_log) IN Drawn("Skewed", r.seed, r.out)

NextRandom == DrawNext \/ DrawUniform \/ DrawOneIn \/ DrawSkewed

SpecRandom == InitRandom /\ [][NextRandom]_vars

\* C10: the initial state is the argument's low 31 bits with 0 and 2^31-1
\* remapped to 1 (so the arguments 0, 2^31-1, 2^31 and 2^32-1 give the first
\* draw 16807); the state stays in [1, 2^31-2] under Next, Uniform, OneIn and
\* Skewed; Next() never returns 0 or 2^31-1.
C10_SeedInvariant ==
    /\ rnd.seed_ >= 1 /\ rnd.seed_ <= M - 1
    /\ rnd.draws = 0 =>
           rnd.seed_ = (IF rnd.arg.low \in {0, M} THEN 1 ELSE rnd.arg.low)
    /\ (rnd.draws = 1 /\ rnd.op = "Next" /\ rnd.arg.low \in {0, M}) =>
           rnd.out = 16807
    /\ rnd.op = "Next" => (rnd.out # 0 /\ rnd.out # M /\ rnd.out = rnd.seed_)

\* a generator constructed from 2^32-1 made its first draw, 16807
C10_Witness ==
    /\ rnd.arg = [top |-> 1, low |-> M]
    /\ rnd.draws = 1
    /\ rnd.op = "Next"
    /\ rnd.out = 16807

(***************************************************************************)
(* SpecSimple: ArenaTest.Simple (util/arena_test.cc:14-63).  One step is   *)
(* one iteration of the loop.  The free store places every block right     *)
(* after the previous one.  The vector of (size, pointer) pairs the test   *)
(* keeps for its final read-back is not kept here.                         *)
(***************************************************************************)
\* arena_test.cc:18  const int N = 100000;
N == 100000

\* arena_test.cc:23-41: the size s of iteration i, as [seed, out]
TestSize(seed, i) ==
    LET big == OneIn(seed, 4000)
        mid == OneIn(big.seed, 10)
        r == IF i % (N \div 10) = 0 THEN [seed |-> seed, out |-> i]
             ELSE IF big.out THEN Uniform(big.seed, 6000)
             ELSE IF mid.out THEN Uniform(mid.seed, 100)
             ELSE Uniform(mid.seed, 20)
    IN  [r EXCEPT !.out = IF @ = 0 THEN 1 ELSE @]

\* arena_test.cc:43-48: the allocation of iteration i
TestAllocate(st, aligned, s) ==
    IF aligned THEN AllocateAligned(st, s, 0) ELSE Allocate(st, s, 0)

\* arena_test.cc:58-62: the assertions after the allocation of iteration i
\* (bytes * 1.10 is taken exactly, as 11 * bytes / 10)
TestVerdict(i, outcome, usage, bytes) ==
    IF outcome # "returned" THEN outcome
    ELSE IF ~(usage >= bytes) THEN "ASSERT_GE"
    ELSE IF i > N \div 10 /\ ~(10 * usage <= 11 * bytes) THEN "ASSERT_LE"
    ELSE "ok"

InitSimple ==
    /\ ArenaInit
    /\ SlicesIdle
    /\ rnd = NewRandom(TestSeed)
    /\ test = [i |-> 0, bytes |-> 0, verdict |-> "ok"]

TestStep ==
    /\ test.i < N
    /\ test.verdict = "ok"
    /\ status = "live"
    /\ LET size == TestSize(rnd.seed_, test.i)
           pick == OneIn(size.seed, 10)
           r == TestAllocate(Here, pick.out, size.out)
       IN  /\ arena' = r.arena
           /\ heap' = r.heap
           /\ last' = [op |-> IF pick.out THEN "AllocateAligned" ELSE "Allocate",
                       n |-> size.out, outcome |-> r.outcome,
                       result |-> r.result, k |-> test.i + 1, pre |-> arena]
           /\ rnd' = [rnd EXCEPT !.seed_ = pick.seed, !.op = "OneIn",
                                 !.out = IF pick.out THEN 1 ELSE 0]
           /\ test' = [i |-> test.i + 1, bytes |-> test.bytes + size.out,
                       verdict |-> TestVerdict(test.i, r.outcome,
                                               MemoryUsage(r.arena),
                                               test.bytes + size.out)]
    /\ UNCHANGED <<status, allocated, usage_hist, obs, slices>>

NextSimple == TestStep

SpecSimple == InitSimple /\ [][NextSimple]_vars

\* C9: in the workload of the Simple test, after every iteration i > N/10
\* the counter satisfies 10 * MemoryUsage() <= 11 * (bytes requested so far).
C9_UsageUpperBound ==
    (test.i - 1 > N \div 10) => 10 * MemoryUsage(arena) <= 11 * test.bytes

\* half of the workload ran with no assertion failed: iteration N/2, which
\* requests N/2 bytes, has just passed both assertions
C9_Witness ==
    /\ test.i = N \div 2 + 1
    /\ last.n = N \div 2
    /\ test.verdict = "ok"
    /\ MemoryUsage(arena) > test.bytes

(***************************************************************************)
(* The recurrence of the Lehmer generator stated directly: (x * A) mod M,  *)
(* by doubling and adding modulo M.                                        *)
(***************************************************************************)
AddMod(x, y) == IF x >= M - y THEN x - (M - y) ELSE x + y

RECURSIVE MulMod(_, _)
MulMod(x, a) ==
    IF a = 0 THEN 0
    ELSE LET h == MulMod(x, a \div 2)
             d == AddMod(h, h)
         IN  IF a % 2 = 1 THEN AddMod(d, x % M) ELSE d

\* C11: for every legal state x, the shift-and-mask reduction of Next with
\* one conditional subtraction yields (x * 16807) mod (2^31-1); the sum
\* (product >> 31) + (product & M) fits 32 bits (it is at most 2 * M + 1);
\* from state 1 the draws are 16807, 282475249, 1622650073.
C11_NextIsLehmer ==
    LET x == rnd.seed_
        product == Product(x)
    IN  /\ Next(x) = MulMod(x, A)
        /\ product.shr <= M /\ product.and <= M
        /\ product.shr - (M - product.and) - 1 <= M
        /\ x = 1 => Next(x) = 16807
        /\ x = 16807 => Next(x) = 282475249
        /\ x = 282475249 => Next(x) = 1622650073

\* a draw was made from a state whose sum exceeds M, so the conditional
\* subtraction was taken: 20443707 * 16807 mod (2^31-1) = 29
C11_Witness ==
    /\ rnd.arg = [top |-> 0, low |-> 20443707]
    /\ rnd.draws = 1
    /\ rnd.op = "Next"
    /\ Product(20443707).shr > M - Product(20443707).and
    /\ rnd.seed_ = 29

\* the three draws from state 1 named by the claim
C11_FirstDraws ==
    /\ rnd.arg = [top |-> 0, low |-> 1]
    /\ rnd.draws = 3
    /\ rnd.op = "Next"
    /\ rnd.seed_ = 1622650073

(***************************************************************************)
(* SpecSlice: three slices a, b, c over byte arrays of at most MaxLen      *)
(* bytes drawn from SliceBytes (0x00, 0x7f and 0x80), or default           *)
(* constructed; the client compares a with b, asks whether a starts with   *)
(* b, tests them for equality, and drops a prefix of a or clears it.       *)
(***************************************************************************)
SliceBytes == {0, 127, 128}

RECURSIVE Arrays(_)
Arrays(n) ==
    IF n = 0 THEN {<<>>}
    ELSE LET shorter == Arrays(n - 1)
         IN  shorter \cup {Append(d, v) : d \in {e \in shorter : Len(e) = n - 1},
                                          v \in SliceBytes}

SliceInputs == {Slice} \cup {SliceOf(d, Len(d)) : d \in Arrays(MaxLen)}

InitSlice ==
    /\ ArenaInit
    /\ rnd = NewRandom(TestSeed)
    /\ test = [i |-> 0, bytes |-> 0, verdict |-> "ok"]
    /\ \E a \in SliceInputs, b \in SliceInputs, c \in SliceInputs :
           slices = [a |-> a, b |-> b, c |-> c, op |-> "none", r |-> 0]

SliceCall(op, r) ==
    /\ slices.op # "assert"
    /\ slices' = [slices EXCEPT !.op = op, !.r = r]
    /\ UNCHANGED <<arena, heap, status, allocated, last, usage_hist, obs, rnd,
                   test>>

CallCompare == SliceCall("compare", compare(slices.a, slices.b))

CallStartsWith == SliceCall("starts_with", starts_with(slices.a, slices.b))

CallEquals == SliceCall("==", SliceEq(slices.a, slices.b))

CallRemovePrefix ==
    /\ slices.op # "assert"
    /\ \E n \in 0..(MaxLen + 1) :
           slices' = IF n <= slices.a.size_
                     THEN [slices EXCEPT !.a = remove_prefix(@, n),
                                         !.op = "remove_prefix", !.r = n]
                     ELSE [slices EXCEPT !.op = "assert", !.r = n]
    /\ UNCHANGED <<arena, heap, status, allocated, last, usage_hist, obs, rnd,
                   test>>

CallClear ==
    /\ slices.op # "assert"
    /\ slices' = [slices EXCEPT !.a = clear(@), !.op = "clear", !.r = 0]
    /\ UNCHANGED <<arena, heap, status, allocated, last, usage_hist, obs, rnd,
                   test>>

NextSlice ==
    \/ CallCompare
    \/ CallStartsWith
    \/ CallEquals
    \/ CallRemovePrefix
    \/ CallClear

SpecSlice == InitSlice /\ [][NextSlice]_vars

Sign(v) == IF v < 0 THEN -1 ELSE IF v > 0 THEN 1 ELSE 0

\* lexicographic order on byte strings, a proper prefix first: -1, 0 or 1
RECURSIVE Lex(_, _)
Lex(s, t) ==
    IF s = <<>> THEN (IF t = <<>> THEN 0 ELSE -1)
    ELSE IF t = <<>> THEN 1
    ELSE IF Head(s) < Head(t) THEN -1
    ELSE IF Head(s) > Head(t) THEN 1
    ELSE Lex(Tail(s), Tail(t))

\* C13: compare is the three-way lexicographic order on unsigned bytes, a
\* proper prefix before any longer string; it is antisymmetric, transitive
\* and total; a == b exactly when a.compare(b) == 0.
C13_CompareIsLexOrder ==
    LET a == slices.a
        b == slices.b
        c == slices.c
    IN  /\ Sign(compare(a, b)) = Lex(SliceToString(a), SliceToString(b))
        /\ Sign(compare(a, c)) = Lex(SliceToString(a), SliceToString(c))
        /\ Sign(compare(a, b)) = -Sign(compare(b, a))
        /\ compare(a, b) <= 0 /\ compare(b, c) <= 0 => compare(a, c) <= 0
        /\ compare(a, b) < 0 /\ compare(b, c) <= 0 => compare(a, c) < 0
        /\ compare(a, b) <= 0 /\ compare(b, c) < 0 => compare(a, c) < 0
        /\ compare(c, b) <= 0 /\ compare(b, a) <= 0 => compare(c, a) <= 0
        /\ compare(a, b) = 0 <=> SliceToString(a) = SliceToString(b)
        /\ SliceEq(a, b) <=> compare(a, b) = 0
        /\ SliceNe(a, b) <=> compare(a, b) # 0
        /\ compare(a, a) = 0
        /\ slices.op = "compare" => slices.r = compare(a, b)
        /\ slices.op = "==" => slices.r = SliceEq(a, b)

\* a, a view that lost its first byte and now holds the single byte 0x80,
\* was compared with b = 0x80 0x00, of which it is a proper prefix, and
\* b sorts after c = 0x7f
C13_Witness ==
    /\ slices.op = "compare"
    /\ slices.a.off = 1
    /\ SliceToString(slices.a) = <<128>>
    /\ SliceToString(slices.b) = <<128, 0>>
    /\ SliceToString(slices.c) = <<127>>
    /\ slices.r < 0
    /\ compare(slices.c, slices.a) < 0

Prefix(s, x) == Len(s) >= Len(x) /\ SubSeq(s, 1, Len(x)) = x

\* C14: a.starts_with(x) is true exactly when a is at least as long as x and
\* the first x.size() bytes of a equal x; whenever it is true a.compare(x) is
\* not negative; every view starts with the empty view and with itself.
C14_StartsWith ==
    LET a == slices.a
        x == slices.b
    IN  /\ starts_with(a, x) <=>
               (a.size_ >= x.size_ /\ Prefix(SliceToString(a), SliceToString(x)))
        /\ starts_with(a, x) => compare(a, x) >= 0
        /\ starts_with(a, Slice)
        /\ starts_with(a, a)
        /\ starts_with(x, a) /\ starts_with(a, x) => SliceEq(a, x)
        /\ slices.op = "starts_with" => slices.r = starts_with(a, x)

\* a = 0x00 0x80 was asked whether it starts with x = 0x00, a proper prefix
C14_Witness ==
    /\ slices.op = "starts_with"
    /\ slices.r = TRUE
    /\ SliceToString(slices.a) = <<0, 128>>
    /\ SliceToString(slices.b) = <<0>>
    /\ compare(slices.a, slices.b) > 0

(***************************************************************************)
(* Claims about the block policy and the cursor, under Spec.               *)
(***************************************************************************)
Returned == status = "live" /\ last.outcome = "returned"

\* the last call acquired a block
AcquiredBlock == Len(arena.blocks_) = Len(last.pre.blocks_) + 1

\* the block the last call acquired
NewestBlock ==
    heap.chunks[CHOOSE c \in 1..Len(heap.chunks) :
                    heap.chunks[c].base = arena.blocks_[Len(arena.blocks_)]]

\* the last call replaced the active block by a fresh standard block
ReplacedActiveBlock ==
    /\ Returned
    /\ AcquiredBlock
    /\ arena.alloc_ptr_ # last.pre.alloc_ptr_

\* C15: whenever an allocation (Allocate or AllocateAligned) replaces the
\* active block by a fresh standard block, the bytes abandoned in the previous
\* active block, its remaining count at that moment, are at most
\* kBlockSize / 4 = 1024.
C15_WasteBounded ==
    ReplacedActiveBlock =>
        /\ NewestBlock.size = kBlockSize
        /\ last.pre.alloc_bytes_remaining_ <= kBlockSize \div 4

\* AllocateAligned(1024) found 1023 bytes left behind a cursor that needs 7
\* bytes of padding, and abandoned them for a fresh standard block
C15_Witness ==
    /\ ReplacedActiveBlock
    /\ last.op = "AllocateAligned"
    /\ last.n = kBlockSize \div 4
    /\ last.pre.alloc_bytes_remaining_ = kBlockSize \div 4 - 1
    /\ Slop(last.pre.alloc_ptr_) = align - 1

\* the last call went to AllocateFallback: the request did not pass the test
\* of the fast path (for AllocateAligned, the test on needed = bytes + slop
\* as the code computes it)
TookFallback ==
    \/ /\ last.op = "Allocate"
       /\ last.n > last.pre.alloc_bytes_remaining_
    \/ /\ last.op = "AllocateAligned"
       /\ Wrap(last.n + Slop(last.pre.alloc_ptr_)) > last.pre.alloc_bytes_remaining_

\* the pointer returned by the call before the last one was the base of a
\* block of its own, and the arena object the last call started from
DedicatedBefore ==
    /\ Len(allocated) >= 2
    /\ last.k = Len(allocated)
    /\ allocated[Len(allocated) - 1].n > kBlockSize \div 4
    /\ \E b \in 1..Len(last.pre.blocks_) :
           last.pre.blocks_[b] = allocated[Len(allocated) - 1].p

\* C16: a request of n > 1024 bytes that does not fit the current block (via
\* Allocate, or via AllocateAligned falling back) appends exactly one block
\* of exactly n bytes and returns its base; the usage counter grows by
\* n + sizeof(char*); cursor and remaining count are unchanged, so a later
\* request that fits the old remaining bytes is served from the old active
\* block, and on a fresh arena a following Allocate(1) creates a standard
\* block.
C16_LargeLeavesActiveBlock ==
    /\ (Returned /\ TookFallback /\ last.n > kBlockSize \div 4) =>
           /\ arena.blocks_ = Append(last.pre.blocks_, last.result)
           /\ NewestBlock = [base |-> last.result, size |-> last.n]
           /\ arena.memory_usage_ = last.pre.memory_usage_ + last.n + PointerSize
           /\ arena.alloc_ptr_ = last.pre.alloc_ptr_
           /\ arena.alloc_bytes_remaining_ = last.pre.alloc_bytes_remaining_
    /\ (Returned /\ DedicatedBefore /\ last.op = "Allocate"
            /\ last.n <= last.pre.alloc_bytes_remaining_) =>
           /\ last.result = last.pre.alloc_ptr_
           /\ arena.blocks_ = last.pre.blocks_
    /\ (Returned /\ DedicatedBefore /\ last.op = "Allocate"
            /\ last.n = 1 /\ last.pre.alloc_ptr_ = 0) =>
           /\ AcquiredBlock
           /\ NewestBlock = [base |-> last.result, size |-> kBlockSize]

\* with 3070 bytes left, AllocateAligned(5000) fell back and got a block of
\* its own, the second block of the arena
C16_Witness ==
    /\ Returned
    /\ TookFallback
    /\ last.op = "AllocateAligned"
    /\ last.n = kBlockSize + 904
    /\ last.pre.alloc_bytes_remaining_ = kBlockSize - 1 - (kBlockSize \div 4 + 1)
    /\ Len(arena.blocks_) = 2
    /\ arena.alloc_ptr_ = last.pre.alloc_ptr_

\* after Allocate(1025) on a fresh arena, Allocate(1) created a standard block
C16_FreshWitness ==
    /\ Returned
    /\ DedicatedBefore
    /\ last.op = "Allocate" /\ last.n = 1 /\ last.pre.alloc_ptr_ = 0
    /\ last.pre.blocks_ # <<>>

\* after a request served by a block of its own, a small request was served
\* from the old active block
C16_LaterWitness ==
    /\ Returned
    /\ DedicatedBefore
    /\ last.op = "Allocate" /\ last.n = 1 /\ last.pre.alloc_ptr_ # 0
    /\ last.result = last.pre.alloc_ptr_

\* the size new[] gave the block at address b
BlockSize(b) ==
    heap.chunks[CHOOSE c \in 1..Len(heap.chunks) : heap.chunks[c].base = b].size

\* fresh: no active block, cursor null, remaining count zero
Fresh(a) == a.alloc_ptr_ = 0 /\ a.alloc_bytes_remaining_ = 0

\* serving: the cursor is in (or at the end of) a standard block of the arena,
\* and the remaining count reaches to that block's end
Serving(a) ==
    /\ a.alloc_ptr_ # 0
    /\ \E k \in 1..Len(a.blocks_) :
           /\ BlockSize(a.blocks_[k]) = kBlockSize
           /\ a.blocks_[k] <= a.alloc_ptr_
           /\ a.alloc_ptr_ + a.alloc_bytes_remaining_ = a.blocks_[k] + kBlockSize

\* the last call returned the first region of n > 0 bytes the arena gave out
FirstAllocation == Returned /\ last.n > 0 /\ last.pre.blocks_ = <<>>

\* C17 as stated: the arena starts fresh; the first allocation on a fresh
\* arena, of any size n > 0 through Allocate or AllocateAligned, moves it to
\* serving; serving is never left before destruction.
C17_FirstAllocationServes ==
    /\ last.k = 0 => Fresh(arena)
    /\ FirstAllocation => Serving(arena)
    /\ (status # "destroyed" /\ Serving(last.pre)) => Serving(arena)

\* C17, amended: the arena starts fresh and before destruction is always
\* fresh or serving; an allocation of 0 < n <= 1024 bytes on a fresh arena
\* moves it to serving; an allocation of n > 1024 bytes on a fresh arena gets
\* a block of its own and leaves the arena fresh; serving is never left
\* before destruction.
C17_SmallAllocationServes ==
    /\ last.k = 0 => Fresh(arena)
    /\ status # "destroyed" => (Fresh(arena) \/ Serving(arena))
    /\ ~(Fresh(arena) /\ Serving(arena))
    /\ (Returned /\ Fresh(last.pre) /\ last.n > 0
            /\ last.n <= kBlockSize \div 4) =>
           Serving(arena)
    /\ (Returned /\ Fresh(last.pre) /\ last.n > kBlockSize \div 4) =>
           (Fresh(arena) /\ AcquiredBlock)
    /\ (status # "destroyed" /\ Serving(last.pre)) => Serving(arena)

\* the first allocation, Allocate(1025), left the arena fresh, and the
\* second, AllocateAligned(1), moved it to serving
C17_Witness ==
    /\ Returned
    /\ last.k = 2
    /\ last.op = "AllocateAligned" /\ last.n = 1
    /\ Fresh(last.pre)
    /\ Len(last.pre.blocks_) = 1
    /\ Serving(arena)

\* the positions in the block list of the standard blocks
StandardBlocks == {k \in 1..Len(arena.blocks_) :
                       BlockSize(arena.blocks_[k]) = kBlockSize}

\* the most recently acquired standard block
ActiveBlock ==
    arena.blocks_[CHOOSE k \in StandardBlocks : \A j \in StandardBlocks : j <= k]

\* [cursor, cursor + remaining) is the tail of the most recently acquired
\* standard block
CursorIsTail ==
    IF StandardBlocks = {}
    THEN Fresh(arena)
    ELSE /\ ActiveBlock <= arena.alloc_ptr_
         /\ arena.alloc_ptr_ + arena.alloc_bytes_remaining_ = ActiveBlock + kBlockSize

\* no byte of a returned allocation lies in [cursor, cursor + remaining)
TailUnused ==
    \A i \in Given :
        ~(/\ Lo(i) < arena.alloc_ptr_ + arena.alloc_bytes_remaining_
          /\ arena.alloc_ptr_ < Hi(i))

\* C18: in every reachable state remaining <= 4096 (it never underflows), and
\* [cursor, cursor + remaining) is exactly the tail of the most recently
\* acquired standard block, ending at that block's end and containing no byte
\* of any returned allocation; on a fresh arena the cursor is null and
\* remaining is 0.
C18_CursorInvariant ==
    status # "destroyed" =>
        /\ arena.alloc_bytes_remaining_ <= kBlockSize
        /\ CursorIsTail
        /\ TailUnused
        /\ arena.blocks_ = <<>> => Fresh(arena)

\* C18 for requests that do not make bytes + (align - 1) exceed SIZE_MAX
C18_CursorInvariantBelowWrap ==
    NoWrap => C18_CursorInvariant

\* the part of C18 that is about the cursor and the count alone
C18_CursorAndCount ==
    status # "destroyed" =>
        /\ arena.alloc_bytes_remaining_ <= kBlockSize
        /\ CursorIsTail
        /\ arena.blocks_ = <<>> => Fresh(arena)

\* the last call left the block list and the usage counter alone
NoBlockAcquired ==
    /\ arena.blocks_ = last.pre.blocks_
    /\ MemoryUsage(arena) = MemoryUsage(last.pre)
    /\ Len(heap.chunks) = Len(last.pre.blocks_)

\* the last call consumed k bytes at the cursor
Consumed(k) ==
    /\ arena.alloc_ptr_ = last.pre.alloc_ptr_ + k
    /\ arena.alloc_bytes_remaining_ = last.pre.alloc_bytes_remaining_ - k

\* C19: when 0 < n <= remaining (an exact fit and n > 1024 included)
\* Allocate(n) returns the old cursor, advances the cursor by n, decreases
\* remaining by n and acquires no block (block list and MemoryUsage
\* unchanged); likewise AllocateAligned(n) with n + slop <= remaining returns
\* old cursor + slop, consumes n + slop, and leaves block list and usage
\* unchanged.
C19_FastPathFrame ==
    /\ (/\ last.op = "Allocate"
        /\ 0 < last.n
        /\ last.n <= last.pre.alloc_bytes_remaining_) =>
           /\ last.outcome = "returned"
           /\ last.result = last.pre.alloc_ptr_
           /\ Consumed(last.n)
           /\ NoBlockAcquired
    /\ (/\ last.op = "AllocateAligned"
        /\ 0 < last.n
        /\ last.n + Slop(last.pre.alloc_ptr_) <= last.pre.alloc_bytes_remaining_) =>
           /\ last.outcome = "returned"
           /\ last.result = last.pre.alloc_ptr_ + Slop(last.pre.alloc_ptr_)
           /\ Consumed(last.n + Slop(last.pre.alloc_ptr_))
           /\ NoBlockAcquired

\* Allocate(4095) met exactly 4095 remaining bytes: an exact fit with n > 1024
C19_Witness ==
    /\ Returned
    /\ last.op = "Allocate"
    /\ last.n = kBlockSize - 1
    /\ last.pre.alloc_bytes_remaining_ = last.n
    /\ arena.alloc_bytes_remaining_ = 0
    /\ last.result = last.pre.alloc_ptr_

\* AllocateAligned(1025) was served in the block with 7 bytes of padding
C19_AlignedWitness ==
    /\ Returned
    /\ last.op = "AllocateAligned"
    /\ last.n = kBlockSize \div 4 + 1
    /\ Slop(last.pre.alloc_ptr_) = align - 1
    /\ last.result = last.pre.alloc_ptr_ + align - 1
    /\ arena.blocks_ = last.pre.blocks_

\* the sum over the first k blocks of the list of block size + sizeof(char*)
RECURSIVE BlockCharge(_)
BlockCharge(k) ==
    IF k = 0 THEN 0
    ELSE BlockSize(arena.blocks_[k]) + PointerSize + BlockCharge(k - 1)

\* the returned regions of n > 0 bytes whose address lies in the block at b
\* (the address of an empty region can be the end of the block before b)
HeldBy(b) == {i \in Given :
                  /\ b <= allocated[i].p
                  /\ allocated[i].p < b + BlockSize(b)}

\* the block at b was acquired for one request of more than kBlockSize / 4
\* bytes, has exactly that size, and holds that region alone, at its base
Dedicated(b) ==
    /\ BlockSize(b) > kBlockSize \div 4
    /\ \E i \in HeldBy(b) :
           /\ HeldBy(b) = {i}
           /\ allocated[i].p = b
           /\ allocated[i].n = BlockSize(b)

\* C20: in every quiescent reachable state MemoryUsage() is the sum over the
\* owned blocks of block size + sizeof(char*); every block is a standard
\* block of exactly 4096 bytes or a dedicated block of exactly the requested
\* n > 1024 bytes holding that single allocation at its base; the usage is 0
\* on a fresh arena and 4096 + sizeof(char*) after Allocate(1) on a fresh
\* arena, and it changes only when a block is acquired.
C20_ExactUsage ==
    status # "destroyed" =>
        /\ MemoryUsage(arena) = BlockCharge(Len(arena.blocks_))
        /\ \A k \in 1..Len(arena.blocks_) :
               \/ BlockSize(arena.blocks_[k]) = kBlockSize
               \/ Dedicated(arena.blocks_[k])
        /\ arena.blocks_ = <<>> => MemoryUsage(arena) = 0
        /\ (Returned /\ last.op = "Allocate" /\ last.n = 1
                /\ last.pre.blocks_ = <<>>) =>
               MemoryUsage(arena) = kBlockSize + PointerSize
        /\ MemoryUsage(arena) # MemoryUsage(last.pre) => AcquiredBlock
        /\ AcquiredBlock =>
               MemoryUsage(arena) =
                   MemoryUsage(last.pre) + NewestBlock.size + PointerSize

\* three calls acquired three blocks, a standard one and two dedicated ones
\* of 1025 and 5000 bytes: 4104 + 1033 + 5008 bytes of usage
C20_Witness ==
    /\ Returned
    /\ Len(arena.blocks_) = 3
    /\ \E k \in 1..3 : BlockSize(arena.blocks_[k]) = kBlockSize
    /\ \E k \in 1..3 : BlockSize(arena.blocks_[k]) = kBlockSize \div 4 + 1
    /\ \E k \in 1..3 : BlockSize(arena.blocks_[k]) = kBlockSize + 904
    /\ MemoryUsage(arena) = 2 * kBlockSize + kBlockSize \div 4 + 905 + 3 * PointerSize

====
